---- MODULE Spec2Model ----
(***************************************************************************)
(* Model of the trade-lifecycle tracker of src/main.py (class TradeTracker *)
(* and the Trade dataclass it stores).                                     *)
(*                                                                         *)
(* Python shares Trade objects by reference between the active dict, the   *)
(* closed list and the two window lists, so the model keeps an explicit    *)
(* heap: heap[r] holds the fields of the r-th Trade object constructed,    *)
(* and the four collections hold references r.                             *)
(*                                                                         *)
(* profit_r is a float in the source; every value it takes is a multiple   *)
(* of 0.1, so the model keeps it in tenths of R (1.5 -> 15, -1.0 -> -10).  *)
(***************************************************************************)
EXTENDS Integers, Sequences, FiniteSets, TLC

\* Number of Trade objects constructed in one behaviour.
MaxTrades == 2

\* Number of calls (webhook events, stats requests, summary jobs) the
\* concurrent threads begin in one behaviour.
MaxCalls == 5

\* Trade ids delivered by the event source, and the (id, symbol) pairs of the
\* NEW_TRADE events it delivers (an id may be delivered again at any time).
Ids == {"t1", "t2"}
NewTrades ==
    {[id |-> "t1", symbol |-> "EURUSD"],
     [id |-> "t2", symbol |-> "BTCUSD"]}

\* The level strings of TP_HIT events ("UNKNOWN" is the default of a missing level).
Levels == {"TP1", "TP2", "TP3", "UNKNOWN"}

\* profit_r values assigned by the tracker, in tenths of R.
R_INITIAL == 0
R_TP1 == 15
R_TP2 == 25
R_TP3 == 40
R_SL == 0 - 10

VARIABLES
    heap,           \* sequence of Trade objects, indexed by reference
    active_trades,  \* TradeTracker.active_trades : id -> reference
    closed_trades,  \* TradeTracker.closed_trades : list of references
    daily_trades,   \* TradeTracker.daily_trades  : list of references
    weekly_trades,  \* TradeTracker.weekly_trades : list of references
    raised,         \* exception that left the last tracker call ("None" if none)
    telegram,       \* TradingBot: whether __init__ set the attribute self.telegram
    workers,        \* request threads: the webhook call each is in, and its locals
    reader,         \* the thread serving a stats route, and its locals
    sched,          \* the scheduler thread running a summary job, and its locals
    calls           \* number of calls the concurrent threads have begun

\* The tracker, and the bot and threads around it.
tracker == <<heap, active_trades, closed_trades, daily_trades, weekly_trades, raised>>
shell == <<telegram, workers, reader, sched, calls>>
vars == <<heap, active_trades, closed_trades, daily_trades, weekly_trades, raised,
          telegram, workers, reader, sched, calls>>

\* The request threads of the server.
Workers == {"w1", "w2"}

\* The request threads that take webhook events while a stats request and a
\* summary job run: one event is in flight at a time.
Serving == {"w1"}

\* The two windows.
Windows == {"daily", "weekly"}

\* A thread that is in no call.
IdleWorker == [pc |-> "idle", id |-> "", level |-> "", trade |-> 0]
IdleReader == [pc |-> "idle", window |-> "", total |-> 0, closed |-> <<>>, stats |-> <<>>]
IdleSched == [pc |-> "idle", window |-> "", seen |-> <<>>]

-----------------------------------------------------------------------------
(* Data *)

\* A freshly constructed Trade: the status fields take their dataclass defaults.
Trade(id, symbol) ==
    [id |-> id, symbol |-> symbol,
     tp1_hit |-> FALSE, tp2_hit |-> FALSE, tp3_hit |-> FALSE, sl_hit |-> FALSE,
     closed |-> FALSE, final_result |-> "ACTIVE", profit_r |-> R_INITIAL]

\* The tracker (and the objects it references) as one value.
Tracker ==
    [heap |-> heap, active_trades |-> active_trades, closed_trades |-> closed_trades,
     daily_trades |-> daily_trades, weekly_trades |-> weekly_trades, raised |-> raised]

\* Python dict operations on a function with a finite domain.
DictSet(d, k, v) == [x \in (DOMAIN d) \cup {k} |-> IF x = k THEN v ELSE d[x]]
DictPop(d, k) == [x \in (DOMAIN d) \ {k} |-> d[x]]
EmptyDict == [x \in {} |-> 0]

-----------------------------------------------------------------------------
(* TradeTracker operations, as functions from tracker value to tracker value *)

\* add_trade with the weekly append left out.
add_trade_DailyOnly(T, trade) ==
    LET ref == Len(T.heap) + 1 IN
    [T EXCEPT !.heap = Append(@, trade),
              !.active_trades = DictSet(@, trade.id, ref),
              !.daily_trades = Append(@, ref),
              !.raised = "None"]

\* add_trade: the new object is stored under its id (replacing any object
\* already stored there) and appended to both windows.
add_trade(T, trade) ==
    LET ref == Len(T.heap) + 1 IN
    [T EXCEPT !.heap = Append(@, trade),
              !.active_trades = DictSet(@, trade.id, ref),
              !.daily_trades = Append(@, ref),
              !.weekly_trades = Append(@, ref),
              !.raised = "None"]

\* close_trade reading the trade instead of popping it.
close_trade_NoPop(T, trade_id) ==
    IF trade_id \in DOMAIN T.active_trades
    THEN [T EXCEPT !.closed_trades = Append(@, T.active_trades[trade_id])]
    ELSE T

\* close_trade: move the trade from active to closed.
close_trade(T, trade_id) ==
    IF trade_id \in DOMAIN T.active_trades
    THEN [T EXCEPT !.active_trades = DictPop(@, trade_id),
                   !.closed_trades = Append(@, T.active_trades[trade_id])]
    ELSE T

\* update_trade_tp with one branch changed:
\*   "NoClose"  - the TP3 branch does not call close_trade;
\*   "Tp1Final" - the TP1 branch also sets final_result;
\*   "Tp2Close" - the TP2 branch also calls close_trade.
update_trade_tp_Changed(T, trade_id, level, change) ==
    IF trade_id \in DOMAIN T.active_trades
    THEN LET trade == T.active_trades[trade_id]
             tp1 == [T EXCEPT !.heap[trade].tp1_hit = TRUE,
                              !.heap[trade].profit_r = R_TP1,
                              !.raised = "None"]
             tp2 == [T EXCEPT !.heap[trade].tp2_hit = TRUE,
                              !.heap[trade].profit_r = R_TP2,
                              !.raised = "None"]
             tp3 == [T EXCEPT !.heap[trade].tp3_hit = TRUE,
                              !.heap[trade].final_result = "TP3",
                              !.heap[trade].profit_r = R_TP3,
                              !.heap[trade].closed = TRUE,
                              !.raised = "None"]
         IN  IF level = "TP1"
             THEN IF change = "Tp1Final"
                  THEN [tp1 EXCEPT !.heap[trade].final_result = "TP1"]
                  ELSE tp1
             ELSE IF level = "TP2"
             THEN IF change = "Tp2Close" THEN close_trade(tp2, trade_id) ELSE tp2
             ELSE IF level = "TP3"
             THEN IF change = "NoClose" THEN tp3 ELSE close_trade(tp3, trade_id)
             ELSE [T EXCEPT !.raised = "None"]
    ELSE [T EXCEPT !.raised = "None"]

update_trade_tp_NoClose(T, trade_id, level) ==
    update_trade_tp_Changed(T, trade_id, level, "NoClose")
update_trade_tp_Tp1Final(T, trade_id, level) ==
    update_trade_tp_Changed(T, trade_id, level, "Tp1Final")
update_trade_tp_Tp2Close(T, trade_id, level) ==
    update_trade_tp_Changed(T, trade_id, level, "Tp2Close")

\* update_trade_tp: the price argument is never read.
update_trade_tp(T, trade_id, level) ==
    IF trade_id \in DOMAIN T.active_trades
    THEN LET trade == T.active_trades[trade_id] IN
         IF level = "TP1"
         THEN [T EXCEPT !.heap[trade].tp1_hit = TRUE,
                        !.heap[trade].profit_r = R_TP1,
                        !.raised = "None"]
         ELSE IF level = "TP2"
         THEN [T EXCEPT !.heap[trade].tp2_hit = TRUE,
                        !.heap[trade].profit_r = R_TP2,
                        !.raised = "None"]
         ELSE IF level = "TP3"
         THEN close_trade([T EXCEPT !.heap[trade].tp3_hit = TRUE,
                                    !.heap[trade].final_result = "TP3",
                                    !.heap[trade].profit_r = R_TP3,
                                    !.heap[trade].closed = TRUE,
                                    !.raised = "None"], trade_id)
         ELSE [T EXCEPT !.raised = "None"]
    ELSE [T EXCEPT !.raised = "None"]

\* update_trade_sl netting the loss against the profit_r already recorded.
update_trade_sl_Netted(T, trade_id) ==
    IF trade_id \in DOMAIN T.active_trades
    THEN LET trade == T.active_trades[trade_id] IN
         close_trade([T EXCEPT !.heap[trade].sl_hit = TRUE,
                               !.heap[trade].final_result = "SL",
                               !.heap[trade].profit_r = @ + R_SL,
                               !.heap[trade].closed = TRUE,
                               !.raised = "None"], trade_id)
    ELSE [T EXCEPT !.raised = "None"]

\* update_trade_sl indexing the active dict without the membership test.
update_trade_sl_NoGuard(T, trade_id) ==
    IF trade_id \in DOMAIN T.active_trades
    THEN LET trade == T.active_trades[trade_id] IN
         close_trade([T EXCEPT !.heap[trade].sl_hit = TRUE,
                               !.heap[trade].final_result = "SL",
                               !.heap[trade].profit_r = R_SL,
                               !.heap[trade].closed = TRUE,
                               !.raised = "None"], trade_id)
    ELSE [T EXCEPT !.raised = "KeyError"]

\* update_trade_sl recording a stop after a take-profit as that take-profit.
update_trade_sl_KeepsTp(T, trade_id) ==
    IF trade_id \in DOMAIN T.active_trades
    THEN LET trade == T.active_trades[trade_id] IN
         close_trade([T EXCEPT !.heap[trade].sl_hit = TRUE,
                               !.heap[trade].final_result =
                                   IF T.heap[trade].tp2_hit THEN "TP2"
                                   ELSE IF T.heap[trade].tp1_hit THEN "TP1" ELSE "SL",
                               !.heap[trade].profit_r = R_SL,
                               !.heap[trade].closed = TRUE,
                               !.raised = "None"], trade_id)
    ELSE [T EXCEPT !.raised = "None"]

\* update_trade_sl
update_trade_sl(T, trade_id) ==
    IF trade_id \in DOMAIN T.active_trades
    THEN LET trade == T.active_trades[trade_id] IN
         close_trade([T EXCEPT !.heap[trade].sl_hit = TRUE,
                               !.heap[trade].final_result = "SL",
                               !.heap[trade].profit_r = R_SL,
                               !.heap[trade].closed = TRUE,
                               !.raised = "None"], trade_id)
    ELSE [T EXCEPT !.raised = "None"]

\* reset_daily clearing the weekly window as well.
reset_daily_Both(T) ==
    [T EXCEPT !.daily_trades = <<>>, !.weekly_trades = <<>>, !.raised = "None"]

\* reset_daily / reset_weekly
reset_daily(T) == [T EXCEPT !.daily_trades = <<>>, !.raised = "None"]
reset_weekly(T) == [T EXCEPT !.weekly_trades = <<>>, !.raised = "None"]

-----------------------------------------------------------------------------
(* Snapshots *)

\* Python's None, returned for an empty window.
None == [none |-> TRUE]

RECURSIVE SumProfit(_, _)
\* sum([t.profit_r for t in closed])
SumProfit(h, refs) ==
    IF refs = <<>> THEN 0 ELSE h[Head(refs)].profit_r + SumProfit(h, Tail(refs))

\* The outcome counts taken from the hit flags instead of final_result.
CountResult_ByFlag(h, refs, label) ==
    LET Is(r) == \/ label = "TP1" /\ h[r].tp1_hit
                 \/ label = "TP2" /\ h[r].tp2_hit
                 \/ label = "TP3" /\ h[r].tp3_hit
                 \/ label = "SL" /\ h[r].sl_hit
    IN  Len(SelectSeq(refs, Is))

\* len([t for t in closed if t.final_result == label])
CountResult(h, refs, label) ==
    LET Is(r) == h[r].final_result = label IN Len(SelectSeq(refs, Is))

\* The closed filter left out: every trade of the window passes.
ClosedOf_NoFilter(h, window) == window

\* The closed filter testing tp3_hit, so that stopped-out trades pass as open.
ClosedOf_Tp3Only(h, window) ==
    LET IsClosed(r) == h[r].tp3_hit IN SelectSeq(window, IsClosed)

\* [t for t in window if t.closed]
ClosedOf(h, window) ==
    LET IsClosed(r) == h[r].closed IN SelectSeq(window, IsClosed)

RECURSIVE BySymbol_Overwrite(_, _, _)
\* The by_symbol loop without the membership test: each closed trade starts
\* its symbol's entry afresh.
BySymbol_Overwrite(h, refs, by_symbol) ==
    IF refs = <<>> THEN by_symbol
    ELSE LET t == h[Head(refs)]
             entered == DictSet(by_symbol, t.symbol,
                                [wins |-> 0, losses |-> 0, total_r |-> 0])
             counted == IF t.final_result \in {"TP1", "TP2", "TP3"}
                        THEN [entered EXCEPT ![t.symbol].wins = @ + 1]
                        ELSE [entered EXCEPT ![t.symbol].losses = @ + 1]
         IN  BySymbol_Overwrite(h, Tail(refs),
                                [counted EXCEPT ![t.symbol].total_r = @ + t.profit_r])

RECURSIVE BySymbol(_, _, _)
\* The by_symbol loop of get_weekly_stats, one closed trade per iteration.
BySymbol(h, refs, by_symbol) ==
    IF refs = <<>> THEN by_symbol
    ELSE LET t == h[Head(refs)]
             entered == IF t.symbol \notin DOMAIN by_symbol
                        THEN DictSet(by_symbol, t.symbol,
                                     [wins |-> 0, losses |-> 0, total_r |-> 0])
                        ELSE by_symbol
             counted == IF t.final_result \in {"TP1", "TP2", "TP3"}
                        THEN [entered EXCEPT ![t.symbol].wins = @ + 1]
                        ELSE [entered EXCEPT ![t.symbol].losses = @ + 1]
         IN  BySymbol(h, Tail(refs), [counted EXCEPT ![t.symbol].total_r = @ + t.profit_r])

\* get_daily_stats. win_rate and avg_r are float quotients in the source and
\* are kept as exact fractions num/den.
get_daily_stats(T) ==
    IF T.daily_trades = <<>> THEN None
    ELSE LET total == Len(T.daily_trades)
             closed == ClosedOf(T.heap, T.daily_trades)
         IN  IF closed = <<>>
             THEN [total_signals |-> total, closed_trades |-> 0, active_trades |-> total]
             ELSE LET tp3_count == CountResult(T.heap, closed, "TP3")
                      tp2_count == CountResult(T.heap, closed, "TP2")
                      tp1_count == CountResult(T.heap, closed, "TP1")
                      sl_count == CountResult(T.heap, closed, "SL")
                      wins == tp3_count + tp2_count + tp1_count
                      total_r == SumProfit(T.heap, closed)
                  IN  [total_signals |-> total,
                       closed_trades |-> Len(closed),
                       active_trades |-> total - Len(closed),
                       tp3_count |-> tp3_count,
                       tp2_count |-> tp2_count,
                       tp1_count |-> tp1_count,
                       sl_count |-> sl_count,
                       wins |-> wins,
                       losses |-> sl_count,
                       win_rate |-> [num |-> wins * 100, den |-> Len(closed)],
                       total_r |-> total_r,
                       avg_r |-> [num |-> total_r, den |-> Len(closed)],
                       trades |-> T.daily_trades]

\* get_weekly_stats: the same computation over the weekly window, plus by_symbol.
get_weekly_stats(T) ==
    IF T.weekly_trades = <<>> THEN None
    ELSE LET total == Len(T.weekly_trades)
             closed == ClosedOf(T.heap, T.weekly_trades)
         IN  IF closed = <<>>
             THEN [total_signals |-> total, closed_trades |-> 0, active_trades |-> total]
             ELSE LET tp3_count == CountResult(T.heap, closed, "TP3")
                      tp2_count == CountResult(T.heap, closed, "TP2")
                      tp1_count == CountResult(T.heap, closed, "TP1")
                      sl_count == CountResult(T.heap, closed, "SL")
                      wins == tp3_count + tp2_count + tp1_count
                      total_r == SumProfit(T.heap, closed)
                  IN  [total_signals |-> total,
                       closed_trades |-> Len(closed),
                       active_trades |-> total - Len(closed),
                       tp3_count |-> tp3_count,
                       tp2_count |-> tp2_count,
                       tp1_count |-> tp1_count,
                       sl_count |-> sl_count,
                       wins |-> wins,
                       losses |-> sl_count,
                       win_rate |-> [num |-> wins * 100, den |-> Len(closed)],
                       total_r |-> total_r,
                       avg_r |-> [num |-> total_r, den |-> Len(closed)],
                       by_symbol |-> BySymbol(T.heap, closed, EmptyDict),
                       trades |-> T.weekly_trades]

-----------------------------------------------------------------------------
(* The state machine: tracker calls applied one at a time *)

Init ==
    /\ heap = <<>>
    /\ active_trades = EmptyDict
    /\ closed_trades = <<>>
    /\ daily_trades = <<>>
    /\ weekly_trades = <<>>
    /\ raised = "None"
    /\ telegram = TRUE
    /\ workers = [w \in Workers |-> IdleWorker]
    /\ reader = IdleReader
    /\ sched = IdleSched
    /\ calls = 0

\* The tracker's fields take the values of tracker value T.
Becomes(T) ==
    /\ heap' = T.heap
    /\ active_trades' = T.active_trades
    /\ closed_trades' = T.closed_trades
    /\ daily_trades' = T.daily_trades
    /\ weekly_trades' = T.weekly_trades
    /\ raised' = T.raised
    /\ UNCHANGED shell

\* A NEW_TRADE event: a Trade object is constructed and handed to add_trade.
AddTrade(id, symbol) ==
    /\ Len(heap) < MaxTrades
    /\ Becomes(add_trade(Tracker, Trade(id, symbol)))

\* A TP_HIT event.
UpdateTradeTp(id, level) ==
    /\ level \in Levels
    /\ Becomes(update_trade_tp(Tracker, id, level))

\* An SL_HIT event.
UpdateTradeSl(id) ==
    /\ id \in Ids
    /\ Becomes(update_trade_sl(Tracker, id))

\* The daily and the weekly boundary.
ResetDaily ==
    /\ Becomes(reset_daily(Tracker))
    /\ raised' = "None"

ResetWeekly ==
    /\ Becomes(reset_weekly(Tracker))
    /\ raised' = "None"

\* The two read-only snapshot requests: the tracker is left as it is.
GetDaily ==
    /\ get_daily_stats(Tracker) = None <=> daily_trades = <<>>
    /\ UNCHANGED vars

GetWeekly ==
    /\ get_weekly_stats(Tracker) = None <=> weekly_trades = <<>>
    /\ UNCHANGED vars

Next ==
    \/ \E e \in NewTrades : AddTrade(e.id, e.symbol)
    \/ \E id \in Ids, level \in Levels : UpdateTradeTp(id, level)
    \/ \E id \in Ids : UpdateTradeSl(id)
    \/ ResetDaily
    \/ ResetWeekly
    \/ GetDaily
    \/ GetWeekly

Spec == Init /\ [][Next]_vars

-----------------------------------------------------------------------------
(* The same calls run by concurrent threads, one statement at a time.      *)
(* The server handles each request on its own thread and the scheduler     *)
(* runs its jobs on another; TradeTracker takes no lock, so the statements *)
(* of different calls interleave. A thread switch is possible between any  *)
(* two statements (within a statement too; the model does not split them). *)

\* The worker w moves to statement pc (its other locals as given).
WorkerAt(w, pc, id, level, trade) ==
    workers' = [workers EXCEPT ![w] = [pc |-> pc, id |-> id, level |-> level, trade |-> trade]]

\* The call of worker w returns (or its exception is caught by process_webhook).
WorkerReturns(w, exception) ==
    /\ workers' = [workers EXCEPT ![w] = IdleWorker]
    /\ raised' = exception

\* process_webhook, NEW_TRADE: the Trade object is constructed, add_trade is entered.
BeginNewTrade(w, id, symbol) ==
    /\ workers[w].pc = "idle"
    /\ calls < MaxCalls
    /\ calls' = calls + 1
    /\ Len(heap) < MaxTrades
    /\ heap' = Append(heap, Trade(id, symbol))
    /\ WorkerAt(w, "add_active", id, "", Len(heap) + 1)
    /\ UNCHANGED <<active_trades, closed_trades, daily_trades, weekly_trades, raised,
                   telegram, reader, sched>>

\* process_webhook, TP_HIT: update_trade_tp is entered.
BeginTpHit(w, id, level) ==
    /\ workers[w].pc = "idle"
    /\ calls < MaxCalls
    /\ calls' = calls + 1
    /\ WorkerAt(w, "tp_in", id, level, 0)
    /\ UNCHANGED <<tracker, telegram, reader, sched>>

\* process_webhook, SL_HIT: update_trade_sl is entered.
BeginSlHit(w, id) ==
    /\ workers[w].pc = "idle"
    /\ calls < MaxCalls
    /\ calls' = calls + 1
    /\ WorkerAt(w, "sl_in", id, "", 0)
    /\ UNCHANGED <<tracker, telegram, reader, sched>>

\* add_trade, one statement per step.
AddTradeStep(w) ==
    LET me == workers[w] IN
    /\ me.pc \in {"add_active", "add_daily", "add_weekly"}
    /\ IF me.pc = "add_active"
       THEN /\ active_trades' = DictSet(active_trades, heap[me.trade].id, me.trade)
            /\ WorkerAt(w, "add_daily", me.id, "", me.trade)
            /\ UNCHANGED <<daily_trades, weekly_trades, raised>>
       ELSE IF me.pc = "add_daily"
       THEN /\ daily_trades' = Append(daily_trades, me.trade)
            /\ WorkerAt(w, "add_weekly", me.id, "", me.trade)
            /\ UNCHANGED <<active_trades, weekly_trades, raised>>
       ELSE /\ weekly_trades' = Append(weekly_trades, me.trade)
            /\ WorkerReturns(w, "None")
            /\ UNCHANGED <<active_trades, daily_trades>>
    /\ UNCHANGED <<heap, closed_trades, telegram, reader, sched, calls>>

\* update_trade_tp / update_trade_sl: `if trade_id in self.active_trades` and
\* `trade = self.active_trades[trade_id]` (a KeyError if the id has gone meanwhile).
LookupStep(w) ==
    LET me == workers[w] IN
    /\ me.pc \in {"tp_in", "tp_get", "sl_in", "sl_get"}
    /\ IF me.pc \in {"tp_in", "sl_in"}
       THEN IF me.id \in DOMAIN active_trades
            THEN /\ WorkerAt(w, IF me.pc = "tp_in" THEN "tp_get" ELSE "sl_get",
                             me.id, me.level, 0)
                 /\ UNCHANGED raised
            ELSE WorkerReturns(w, "None")
       ELSE IF me.id \notin DOMAIN active_trades
            THEN WorkerReturns(w, "KeyError")
            ELSE IF me.pc = "sl_get"
            THEN WorkerAt(w, "sl_hit", me.id, "", active_trades[me.id]) /\ UNCHANGED raised
            ELSE IF me.level = "TP1"
            THEN WorkerAt(w, "tp1_hit", me.id, me.level, active_trades[me.id])
                 /\ UNCHANGED raised
            ELSE IF me.level = "TP2"
            THEN WorkerAt(w, "tp2_hit", me.id, me.level, active_trades[me.id])
                 /\ UNCHANGED raised
            ELSE IF me.level = "TP3"
            THEN WorkerAt(w, "tp3_hit", me.id, me.level, active_trades[me.id])
                 /\ UNCHANGED raised
            ELSE WorkerReturns(w, "None")
    /\ UNCHANGED <<heap, active_trades, closed_trades, daily_trades, weekly_trades,
                   telegram, reader, sched, calls>>

\* The attribute stores of update_trade_tp and update_trade_sl, in source
\* order: statement -> <<field, value, next statement>>.
Stores ==
    [tp1_hit    |-> <<"tp1_hit", TRUE, "tp1_profit">>,
     tp1_profit |-> <<"profit_r", R_TP1, "return">>,
     tp2_hit    |-> <<"tp2_hit", TRUE, "tp2_profit">>,
     tp2_profit |-> <<"profit_r", R_TP2, "return">>,
     tp3_hit    |-> <<"tp3_hit", TRUE, "tp3_result">>,
     tp3_result |-> <<"final_result", "TP3", "tp3_profit">>,
     tp3_profit |-> <<"profit_r", R_TP3, "tp3_closed">>,
     tp3_closed |-> <<"closed", TRUE, "cl_in">>,
     sl_hit     |-> <<"sl_hit", TRUE, "sl_result">>,
     sl_result  |-> <<"final_result", "SL", "sl_profit">>,
     sl_profit  |-> <<"profit_r", R_SL, "sl_closed">>,
     sl_closed  |-> <<"closed", TRUE, "cl_in">>]

\* One attribute store on the Trade object the call holds.
StoreStep(w) ==
    LET me == workers[w] IN
    /\ me.pc \in DOMAIN Stores
    /\ LET st == Stores[me.pc] IN
       /\ heap' = [heap EXCEPT ![me.trade] =
                      [f \in DOMAIN @ |-> IF f = st[1] THEN st[2] ELSE @[f]]]
       /\ IF st[3] = "return"
          THEN WorkerReturns(w, "None")
          ELSE WorkerAt(w, st[3], me.id, me.level, me.trade) /\ UNCHANGED raised
    /\ UNCHANGED <<active_trades, closed_trades, daily_trades, weekly_trades,
                   telegram, reader, sched, calls>>

\* close_trade: the membership test, the pop (a KeyError if the id has gone
\* meanwhile) and the append of the popped object.
CloseTradeStep(w) ==
    LET me == workers[w] IN
    /\ me.pc \in {"cl_in", "cl_pop", "cl_append"}
    /\ IF me.pc = "cl_in"
       THEN /\ IF me.id \in DOMAIN active_trades
               THEN WorkerAt(w, "cl_pop", me.id, me.level, me.trade) /\ UNCHANGED raised
               ELSE WorkerReturns(w, "None")
            /\ UNCHANGED <<active_trades, closed_trades>>
       ELSE IF me.pc = "cl_pop"
       THEN IF me.id \in DOMAIN active_trades
            THEN /\ active_trades' = DictPop(active_trades, me.id)
                 /\ WorkerAt(w, "cl_append", me.id, me.level, active_trades[me.id])
                 /\ UNCHANGED <<closed_trades, raised>>
            ELSE /\ WorkerReturns(w, "KeyError")
                 /\ UNCHANGED <<active_trades, closed_trades>>
       ELSE /\ closed_trades' = Append(closed_trades, me.trade)
            /\ WorkerReturns(w, "None")
            /\ UNCHANGED active_trades
    /\ UNCHANGED <<heap, daily_trades, weekly_trades, telegram, reader, sched, calls>>

\* The window list a name stands for.
WindowList(window) == IF window = "daily" THEN daily_trades ELSE weekly_trades

\* The counts get_daily_stats / get_weekly_stats build from their locals
\* `total` and `closed` once `closed` is known.
StatsFromLocals(h, total, closed) ==
    IF closed = <<>>
    THEN [total_signals |-> total, closed_trades |-> 0, active_trades |-> total]
    ELSE [total_signals |-> total,
          closed_trades |-> Len(closed),
          active_trades |-> total - Len(closed),
          tp3_count |-> CountResult(h, closed, "TP3"),
          tp2_count |-> CountResult(h, closed, "TP2"),
          tp1_count |-> CountResult(h, closed, "TP1"),
          sl_count |-> CountResult(h, closed, "SL"),
          total_r |-> SumProfit(h, closed)]

\* GET /stats/daily or /stats/weekly: the route calls the snapshot function.
BeginStats(window) ==
    /\ reader.pc = "idle"
    /\ calls < MaxCalls
    /\ calls' = calls + 1
    /\ reader' = [IdleReader EXCEPT !.pc = "r_empty", !.window = window]
    /\ UNCHANGED <<tracker, telegram, workers, sched>>

\* get_daily_stats / get_weekly_stats, one statement per step: the emptiness
\* test, total = len(...), closed = [...], and the counts; then the route
\* returns the snapshot.
StatsStep ==
    /\ reader.pc \in {"r_empty", "r_total", "r_closed", "r_build", "r_return"}
    /\ reader' =
         IF reader.pc = "r_empty"
         THEN IF WindowList(reader.window) = <<>>
              THEN [reader EXCEPT !.pc = "r_return", !.stats = None]
              ELSE [reader EXCEPT !.pc = "r_total"]
         ELSE IF reader.pc = "r_total"
         THEN [reader EXCEPT !.pc = "r_closed", !.total = Len(WindowList(reader.window))]
         ELSE IF reader.pc = "r_closed"
         THEN [reader EXCEPT !.pc = "r_build",
                             !.closed = ClosedOf(heap, WindowList(reader.window))]
         ELSE IF reader.pc = "r_build"
         THEN [reader EXCEPT !.pc = "r_return", !.total = 0, !.closed = <<>>,
                             !.stats = StatsFromLocals(heap, reader.total, reader.closed)]
         ELSE IdleReader
    /\ UNCHANGED <<tracker, telegram, workers, sched, calls>>

\* The scheduler fires send_daily_summary or send_weekly_summary.
BeginSummary(window) ==
    /\ sched.pc = "idle"
    /\ calls < MaxCalls
    /\ calls' = calls + 1
    /\ sched' = [IdleSched EXCEPT !.pc = "s_stats", !.window = window]
    /\ UNCHANGED <<tracker, telegram, workers, reader>>

\* send_daily_summary / send_weekly_summary: stats = snapshot (`seen` keeps
\* the trades it covers), `if self.telegram:` (an AttributeError when the
\* attribute was never set, which ends the job) with the delivery, and the reset.
SummaryStep ==
    /\ sched.pc \in {"s_stats", "s_notify", "s_reset"}
    /\ IF sched.pc = "s_stats"
       THEN /\ sched' = [sched EXCEPT !.pc = "s_notify", !.seen = WindowList(sched.window)]
            /\ UNCHANGED tracker
       ELSE IF sched.pc = "s_notify"
       THEN IF telegram
            THEN /\ sched' = [sched EXCEPT !.pc = "s_reset"]
                 /\ UNCHANGED tracker
            ELSE /\ sched' = IdleSched
                 /\ raised' = "AttributeError"
                 /\ UNCHANGED <<heap, active_trades, closed_trades, daily_trades,
                                weekly_trades>>
       ELSE /\ sched' = IdleSched
            /\ daily_trades' = IF sched.window = "daily" THEN <<>> ELSE daily_trades
            /\ weekly_trades' = IF sched.window = "weekly" THEN <<>> ELSE weekly_trades
            /\ raised' = "None"
            /\ UNCHANGED <<heap, active_trades, closed_trades>>
    /\ UNCHANGED <<telegram, workers, reader, calls>>

\* The bot starts with or without the Telegram credentials in its environment.
InitConc ==
    /\ heap = <<>>
    /\ active_trades = EmptyDict
    /\ closed_trades = <<>>
    /\ daily_trades = <<>>
    /\ weekly_trades = <<>>
    /\ raised = "None"
    /\ telegram \in BOOLEAN
    /\ workers = [w \in Workers |-> IdleWorker]
    /\ reader = IdleReader
    /\ sched = IdleSched
    /\ calls = 0

NextConc ==
    \/ \E w \in Serving, e \in NewTrades : BeginNewTrade(w, e.id, e.symbol)
    \/ \E w \in Serving, id \in Ids, level \in Levels : BeginTpHit(w, id, level)
    \/ \E w \in Serving, id \in Ids : BeginSlHit(w, id)
    \/ \E w \in Serving : AddTradeStep(w)
    \/ \E w \in Serving : LookupStep(w)
    \/ \E w \in Serving : StoreStep(w)
    \/ \E w \in Serving : CloseTradeStep(w)
    \/ \E window \in Windows : BeginStats(window)
    \/ StatsStep
    \/ \E window \in Windows : BeginSummary(window)
    \/ SummaryStep

SpecConc == InitConc /\ [][NextConc]_vars

-----------------------------------------------------------------------------
(* Two webhook events in flight at once: every request thread of the server *)
(* takes events, so two calls of the tracker's mutators interleave.         *)

InitRace ==
    /\ heap = <<>>
    /\ active_trades = EmptyDict
    /\ closed_trades = <<>>
    /\ daily_trades = <<>>
    /\ weekly_trades = <<>>
    /\ raised = "None"
    /\ telegram \in BOOLEAN
    /\ workers = [w \in Workers |-> IdleWorker]
    /\ reader = IdleReader
    /\ sched = IdleSched
    /\ calls = 0

NextRace ==
    \/ \E w \in Workers, e \in NewTrades : BeginNewTrade(w, e.id, e.symbol)
    \/ \E w \in Workers, id \in Ids, level \in Levels : BeginTpHit(w, id, level)
    \/ \E w \in Workers, id \in Ids : BeginSlHit(w, id)
    \/ \E w \in Workers : AddTradeStep(w)
    \/ \E w \in Workers : LookupStep(w)
    \/ \E w \in Workers : StoreStep(w)
    \/ \E w \in Workers : CloseTradeStep(w)

SpecRace == InitRace /\ [][NextRace]_vars

-----------------------------------------------------------------------------
(* The dispatch shell: whole handlers of TradingBot, one call at a time     *)

\* A JSON value of a price field: a number, or text that is no number.
Num(n) == [num |-> n]
Text(s) == [text |-> s]
IsNumber(v) == "num" \in DOMAIN v

\* The webhook payloads the event source delivers (JSON objects; a key may be
\* absent). Prices are small integers.
TradePayloads ==
    {[event |-> "NEW_TRADE", id |-> "t1", symbol |-> "EURUSD", direction |-> "LONG",
      entry |-> Num(2), stop_loss |-> Num(1)],
     [event |-> "NEW_TRADE", id |-> "t2", symbol |-> "BTCUSD", direction |-> "SHORT",
      entry |-> Num(2), stop_loss |-> Num(3)],
     [event |-> "NEW_TRADE", id |-> "t1", symbol |-> "EURUSD", direction |-> "LONG",
      entry |-> Num(2), stop_loss |-> Num(3)],
     [event |-> "NEW_TRADE", id |-> "t2", symbol |-> "BTCUSD", direction |-> "SHORT"],
     [event |-> "NEW_TRADE", symbol |-> "EURUSD", direction |-> "LONG",
      entry |-> Num(2), stop_loss |-> Num(1)],
     [event |-> "NEW_TRADE", id |-> "t1", symbol |-> "EURUSD", direction |-> "LONG",
      entry |-> Text("n/a"), stop_loss |-> Num(1)]}

HitPayloads ==
    {[event |-> "TP_HIT", id |-> id, level |-> level, price |-> Num(3)] :
        id \in Ids, level \in {"TP1", "TP2", "TP3"}}
    \cup {[event |-> "SL_HIT", id |-> id, price |-> Num(1)] : id \in Ids}
    \cup {[event |-> "TP_HIT", level |-> "TP3", price |-> Num(3)],
          [event |-> "TP_HIT", id |-> "t1", price |-> Num(3)],
          [event |-> "TP_HIT", id |-> "t1", level |-> "TP3", price |-> Text("n/a")],
          [event |-> "SL_HIT"],
          [event |-> "PING"],
          [id |-> "t1"]}

Payloads == TradePayloads \cup HitPayloads

\* data.get(key, default)
Get(data, key, default) == IF key \in DOMAIN data THEN data[key] ELSE default

\* process_webhook, NEW_TRADE: the Trade object built from the payload. Every
\* field is the payload's value or its default; float(...) of the two prices
\* is their number (it raises ValueError on text that is no number).
TradeFromPayload(data) ==
    [direction |-> Get(data, "direction", "UNKNOWN"),
     entry |-> Get(data, "entry", Num(0)).num,
     stop_loss |-> Get(data, "stop_loss", Num(0)).num]
    @@ Trade(Get(data, "id", "unknown"), Get(data, "symbol", "UNKNOWN"))

\* The payload is a NEW_TRADE whose Trade object gets constructed.
ConstructsTrade(data) ==
    /\ Get(data, "event", "UNKNOWN") = "NEW_TRADE"
    /\ IsNumber(Get(data, "entry", Num(0)))
    /\ IsNumber(Get(data, "stop_loss", Num(0)))

\* process_webhook: the tracker after the call. Whatever is raised inside
\* (ValueError of float, AttributeError of `self.telegram` when the attribute
\* was never set, which is read after the tracker call) is caught by the
\* handler's `except Exception`, so no exception leaves the call.
process_webhook(T, data) ==
    LET event == Get(data, "event", "UNKNOWN")
        trade_id == Get(data, "id", "unknown")
        level == Get(data, "level", "UNKNOWN")
        after ==
            IF event = "NEW_TRADE"
            THEN IF ConstructsTrade(data) THEN add_trade(T, TradeFromPayload(data)) ELSE T
            ELSE IF event = "TP_HIT"
            THEN IF IsNumber(Get(data, "price", Num(0)))
                 THEN update_trade_tp(T, trade_id, level)
                 ELSE T
            ELSE IF event = "SL_HIT"
            THEN update_trade_sl(T, trade_id)
            ELSE T
    IN  [after EXCEPT !.raised = "None"]

\* send_daily_summary / send_weekly_summary of TradingBot: the snapshot, then
\* `if self.telegram:` (AttributeError when __init__ never set the attribute;
\* it leaves the job), the delivery (the notifier catches what it raises, so
\* the job goes on whether or not the summary was delivered), then the reset.
send_daily_summary(T, has_telegram, delivered) ==
    IF has_telegram
    THEN reset_daily(T)
    ELSE [T EXCEPT !.raised = "AttributeError"]

send_weekly_summary(T, has_telegram, delivered) ==
    IF has_telegram
    THEN reset_weekly(T)
    ELSE [T EXCEPT !.raised = "AttributeError"]

\* POST /webhook with payload data.
ProcessWebhook(data) ==
    /\ ConstructsTrade(data) => Len(heap) < MaxTrades
    /\ Becomes(process_webhook(Tracker, data))

\* The scheduler's two jobs.
SendDailySummary(delivered) ==
    /\ delivered \in BOOLEAN
    /\ Becomes(send_daily_summary(Tracker, telegram, delivered))

SendWeeklySummary(delivered) ==
    /\ delivered \in BOOLEAN
    /\ Becomes(send_weekly_summary(Tracker, telegram, delivered))

\* The bot starts with or without the Telegram credentials in its environment.
InitShell ==
    /\ heap = <<>>
    /\ active_trades = EmptyDict
    /\ closed_trades = <<>>
    /\ daily_trades = <<>>
    /\ weekly_trades = <<>>
    /\ raised = "None"
    /\ telegram \in BOOLEAN
    /\ workers = [w \in Workers |-> IdleWorker]
    /\ reader = IdleReader
    /\ sched = IdleSched
    /\ calls = 0

NextShell ==
    \/ \E data \in Payloads : ProcessWebhook(data)
    \/ \E delivered \in BOOLEAN : SendDailySummary(delivered)
    \/ \E delivered \in BOOLEAN : SendWeeklySummary(delivered)
    \/ GetDaily
    \/ GetWeekly

SpecShell == InitShell /\ [][NextShell]_vars

-----------------------------------------------------------------------------
(* Properties *)

\* The references held by a list.
Refs(seq) == {seq[i] : i \in DOMAIN seq}

\* The trades of a list that are closed / closed with a given final result, counted by position.
NumClosed(window) == Cardinality({i \in DOMAIN window : heap[window[i]].closed})
NumResult(window, label) ==
    Cardinality({i \in DOMAIN window :
                    heap[window[i]].closed /\ heap[window[i]].final_result = label})

\* Tracker value T2 differs from T1 in nothing but the exception slot.
SameTracker(T1, T2) ==
    /\ T2.heap = T1.heap
    /\ T2.active_trades = T1.active_trades
    /\ T2.closed_trades = T1.closed_trades
    /\ T2.daily_trades = T1.daily_trades
    /\ T2.weekly_trades = T1.weekly_trades

\* C1 (as claimed): a step that constructs a Trade whose id is already active
\* and hands it to add_trade ends with DuplicateIdError raised, the active
\* set and both windows as they were, and every earlier Trade object untouched.
C1_DuplicateRejected ==
    [][(/\ Len(heap') = Len(heap) + 1
        /\ heap'[Len(heap')].id \in DOMAIN active_trades)
       => (/\ raised' = "DuplicateIdError"
           /\ active_trades' = active_trades
           /\ daily_trades' = daily_trades
           /\ weekly_trades' = weekly_trades
           /\ \A r \in DOMAIN heap : heap'[r] = heap[r])]_vars

\* C2: an active trade that has recorded TP1 and then TP2 and now receives TP3
\* is closed with final_result "TP3" and profit_r 4.0, leaves the active set
\* and is in the closed set; after that every TP (any level) and SL for the
\* same id leaves the whole tracker as it is.
C2_Tp3ClosesThenNoOp ==
    \A id \in DOMAIN active_trades :
        LET r == active_trades[id]
            T2 == update_trade_tp(Tracker, id, "TP3")
        IN  (heap[r].tp1_hit /\ heap[r].tp2_hit /\ heap[r].profit_r = R_TP2)
            => /\ T2.heap[r].closed
               /\ T2.heap[r].final_result = "TP3"
               /\ T2.heap[r].profit_r = 40
               /\ id \notin DOMAIN T2.active_trades
               /\ r \in Refs(T2.closed_trades)
               /\ \A level \in Levels : update_trade_tp(T2, id, level) = T2
               /\ update_trade_sl(T2, id) = T2

\* C2 witness: a trade closed by TP3 after TP1 and TP2, its id no longer active.
C2_Witness ==
    \E r \in Refs(closed_trades) :
        /\ heap[r].tp1_hit /\ heap[r].tp2_hit /\ heap[r].tp3_hit
        /\ heap[r].final_result = "TP3"
        /\ heap[r].id \notin DOMAIN active_trades

\* C3: SL on any active id (whatever TP flags are set) leaves the trade with
\* sl_hit, closed, final_result "SL", profit_r -1.0, removed from the active
\* set and appended to the end of the closed list.
C3_StopLossCloses ==
    \A id \in DOMAIN active_trades :
        LET r == active_trades[id]
            T2 == update_trade_sl(Tracker, id)
        IN  /\ T2.heap[r].sl_hit
            /\ T2.heap[r].closed
            /\ T2.heap[r].final_result = "SL"
            /\ T2.heap[r].profit_r = 0 - 10
            /\ id \notin DOMAIN T2.active_trades
            /\ T2.closed_trades = Append(closed_trades, r)

\* C3 witness: a trade stopped out after TP1 and TP2 were recorded, next to
\* one stopped out with no TP recorded.
C3_Witness ==
    \E r, q \in Refs(closed_trades) :
        /\ heap[r].sl_hit /\ heap[r].tp1_hit /\ heap[r].tp2_hit /\ heap[r].profit_r = 0 - 10
        /\ heap[q].sl_hit /\ ~heap[q].tp1_hit /\ ~heap[q].tp2_hit /\ heap[q].profit_r = 0 - 10

\* C4 (as claimed): every trade in the active set has final_result "ACTIVE"
\* and profit_r at its initial value 0.0.
C4_ActiveUntouched ==
    \A id \in DOMAIN active_trades :
        /\ heap[active_trades[id]].final_result = "ACTIVE"
        /\ heap[active_trades[id]].profit_r = 0

\* C4 (amended): every trade in the active set is not closed and has
\* final_result "ACTIVE"; its profit_r is 0.0 exactly while neither TP1 nor
\* TP2 has been recorded, and otherwise 1.5 (with tp1_hit) or 2.5 (with tp2_hit).
C4_ActiveResultOnly ==
    \A id \in DOMAIN active_trades :
        LET t == heap[active_trades[id]]
        IN  /\ t.final_result = "ACTIVE"
            /\ ~t.closed
            /\ t.profit_r \in {0, 15, 25}
            /\ (t.profit_r = 0) <=> (~t.tp1_hit /\ ~t.tp2_hit)
            /\ (t.profit_r = 15) => t.tp1_hit
            /\ (t.profit_r = 25) => t.tp2_hit

\* C4 witness: an active trade carrying the profit_r of a recorded TP1.
C4_Witness ==
    \E id \in DOMAIN active_trades :
        /\ heap[active_trades[id]].tp1_hit
        /\ heap[active_trades[id]].profit_r = 15
        /\ heap[active_trades[id]].final_result = "ACTIVE"

\* C5: TP1 or TP2 on an active id sets the matching flag and keeps the trade
\* active (same active set, closed = false, final_result "ACTIVE", closed
\* list as it was); and every trade in the closed list was closed by TP3 or SL.
C5_Tp1Tp2NonTerminal ==
    /\ \A id \in DOMAIN active_trades : \A level \in {"TP1", "TP2"} :
           LET r == active_trades[id]
               T2 == update_trade_tp(Tracker, id, level)
           IN  /\ (level = "TP1") => T2.heap[r].tp1_hit
               /\ (level = "TP2") => T2.heap[r].tp2_hit
               /\ T2.active_trades = active_trades
               /\ ~T2.heap[r].closed
               /\ T2.heap[r].final_result = "ACTIVE"
               /\ T2.closed_trades = closed_trades
    /\ \A r \in Refs(closed_trades) :
           /\ heap[r].closed
           /\ \/ heap[r].final_result = "TP3" /\ heap[r].tp3_hit /\ heap[r].profit_r = 40
              \/ heap[r].final_result = "SL" /\ heap[r].sl_hit /\ heap[r].profit_r = 0 - 10

\* C5 witness: a trade still active after TP1 and TP2, while another trade is closed.
C5_Witness ==
    /\ closed_trades # <<>>
    /\ \E id \in DOMAIN active_trades :
           /\ heap[active_trades[id]].tp1_hit
           /\ heap[active_trades[id]].tp2_hit
           /\ active_trades[id] \notin Refs(closed_trades)

\* C6: TP (any level) and SL for an id that is not in the active set raise
\* nothing and leave heap, active set, closed list and both windows as they are.
C6_AbsentIdNoOp ==
    \A id \in Ids \ DOMAIN active_trades :
        /\ \A level \in Levels :
               LET T2 == update_trade_tp(Tracker, id, level)
               IN  T2.raised = "None" /\ SameTracker(Tracker, T2)
        /\ LET T2 == update_trade_sl(Tracker, id)
           IN  T2.raised = "None" /\ SameTracker(Tracker, T2)

\* C6 witness: one id whose trade is already closed and one id never created,
\* neither in the active set, in a tracker that holds trades.
C6_Witness ==
    /\ \E id \in Ids \ DOMAIN active_trades : \E r \in Refs(closed_trades) : heap[r].id = id
    /\ \E id \in Ids \ DOMAIN active_trades : \A r \in DOMAIN heap : heap[r].id # id
    /\ daily_trades # <<>> /\ weekly_trades # <<>>

\* C7: for every id, applying the same TP level twice gives the tracker that
\* applying it once gives, likewise SL; and no trade is in the closed list twice.
C7_Idempotent ==
    /\ \A id \in Ids : \A level \in {"TP1", "TP2", "TP3"} :
           update_trade_tp(update_trade_tp(Tracker, id, level), id, level)
               = update_trade_tp(Tracker, id, level)
    /\ \A id \in Ids :
           /\ update_trade_sl(update_trade_sl(Tracker, id), id) = update_trade_sl(Tracker, id)
           /\ LET T2 == update_trade_sl(Tracker, id)
              IN  Cardinality(Refs(T2.closed_trades)) = Len(T2.closed_trades)
    /\ Cardinality(Refs(closed_trades)) = Len(closed_trades)

\* C7 witness: two closed trades in the closed list (one by TP3, one by SL).
C7_Witness ==
    /\ Len(closed_trades) = 2
    /\ \E r, q \in Refs(closed_trades) : heap[r].tp3_hit /\ heap[q].sl_hit

\* C8: add_trade of a trade whose id is not active stores the new object
\* under its id, appends that object to the end of both windows and changes
\* nothing else; on an empty tracker the daily snapshot is then
\* total_signals 1, closed_trades 0, active_trades 1.
C8_CreateInserts ==
    \A e \in NewTrades :
        (e.id \notin DOMAIN active_trades) =>
            LET ref == Len(heap) + 1
                T2 == add_trade(Tracker, Trade(e.id, e.symbol))
            IN  /\ T2.raised = "None"
                /\ DOMAIN T2.active_trades = DOMAIN active_trades \cup {e.id}
                /\ T2.active_trades[e.id] = ref
                /\ \A i \in DOMAIN active_trades : T2.active_trades[i] = active_trades[i]
                /\ T2.heap = Append(heap, Trade(e.id, e.symbol))
                /\ T2.daily_trades = Append(daily_trades, ref)
                /\ T2.weekly_trades = Append(weekly_trades, ref)
                /\ T2.closed_trades = closed_trades
                /\ (heap = <<>>) =>
                       get_daily_stats(T2)
                           = [total_signals |-> 1, closed_trades |-> 0, active_trades |-> 1]

\* C8 witness: the tracker right after the first add_trade.
C8_Witness ==
    /\ Len(heap) = 1
    /\ DOMAIN active_trades = {heap[1].id}
    /\ daily_trades = <<1>> /\ weekly_trades = <<1>>
    /\ get_daily_stats(Tracker) = [total_signals |-> 1, closed_trades |-> 0, active_trades |-> 1]

\* C9: the snapshot of a non-empty window reports total_signals = length of
\* the window, closed_trades = number of its closed trades, active_trades =
\* total_signals - closed_trades, and 0 <= closed_trades <= total_signals.
C9_SnapshotCounts ==
    /\ (daily_trades # <<>>) =>
           LET s == get_daily_stats(Tracker)
           IN  /\ s.total_signals = Len(daily_trades)
               /\ s.closed_trades = NumClosed(daily_trades)
               /\ s.active_trades = s.total_signals - s.closed_trades
               /\ 0 <= s.closed_trades /\ s.closed_trades <= s.total_signals
    /\ (weekly_trades # <<>>) =>
           LET s == get_weekly_stats(Tracker)
           IN  /\ s.total_signals = Len(weekly_trades)
               /\ s.closed_trades = NumClosed(weekly_trades)
               /\ s.active_trades = s.total_signals - s.closed_trades
               /\ 0 <= s.closed_trades /\ s.closed_trades <= s.total_signals

\* C9 witness: a daily window with one closed and one active trade, shorter
\* than the weekly window.
C9_Witness ==
    /\ Len(daily_trades) = 1 /\ Len(weekly_trades) = 2
    /\ NumClosed(weekly_trades) = 1
    /\ NumClosed(daily_trades) = 0
    /\ closed_trades # <<>>

\* Snapshot s carries the per-outcome counts and they are those of `window`.
OutcomeCountsOf(s, window) ==
    /\ s.tp1_count = NumResult(window, "TP1")
    /\ s.tp2_count = NumResult(window, "TP2")
    /\ s.tp3_count = NumResult(window, "TP3")
    /\ s.sl_count = NumResult(window, "SL")
    /\ s.tp1_count + s.tp2_count + s.tp3_count + s.sl_count = s.closed_trades

\* C10: in every snapshot that reports per-outcome counts, each count is the
\* number of closed trades of the window with that final_result (tp1_hit and
\* tp2_hit do not count), and the four counts sum to closed_trades.
C10_OutcomeCounts ==
    /\ ("sl_count" \in DOMAIN get_daily_stats(Tracker))
           => OutcomeCountsOf(get_daily_stats(Tracker), daily_trades)
    /\ ("sl_count" \in DOMAIN get_weekly_stats(Tracker))
           => OutcomeCountsOf(get_weekly_stats(Tracker), weekly_trades)
    /\ (NumClosed(daily_trades) > 0) => "sl_count" \in DOMAIN get_daily_stats(Tracker)
    /\ (NumClosed(weekly_trades) > 0) => "sl_count" \in DOMAIN get_weekly_stats(Tracker)

\* C10 witness: both windows hold a trade closed by SL after TP1 and a trade
\* closed by TP3 after TP1 and TP2.
C10_Witness ==
    /\ Len(daily_trades) = 2 /\ Len(weekly_trades) = 2
    /\ \E r, q \in Refs(daily_trades) :
           /\ heap[r].tp1_hit /\ heap[r].final_result = "SL"
           /\ heap[q].tp1_hit /\ heap[q].tp2_hit /\ heap[q].final_result = "TP3"

\* C11 (as claimed): the snapshot of a non-empty window reports a win rate;
\* it is 0 when no trade of the window is closed and wins / closed_trades x 100
\* otherwise, with wins = tp1_count + tp2_count + tp3_count; with 3 closed
\* trades, 2 of them wins, it is within 0.1 of 66.7.
WinRateOf(s) ==
    IF "win_rate" \notin DOMAIN s THEN FALSE
    ELSE IF s.closed_trades = 0 THEN s.win_rate = 0
    ELSE /\ s.win_rate.num = (s.tp1_count + s.tp2_count + s.tp3_count) * 100
         /\ s.win_rate.den = s.closed_trades
         /\ (s.closed_trades = 3 /\ s.wins = 2 /\ s.sl_count = 1)
                => /\ 666 * s.win_rate.den <= 10 * s.win_rate.num
                   /\ 10 * s.win_rate.num <= 668 * s.win_rate.den

C11_WinRate ==
    /\ (daily_trades # <<>>) => WinRateOf(get_daily_stats(Tracker))
    /\ (weekly_trades # <<>>) => WinRateOf(get_weekly_stats(Tracker))

RECURSIVE ClosedProfit(_, _)
\* The profit_r of the closed trades among the first n trades of a window, summed.
ClosedProfit(window, n) ==
    IF n = 0 THEN 0
    ELSE (IF heap[window[n]].closed THEN heap[window[n]].profit_r ELSE 0)
             + ClosedProfit(window, n - 1)

\* Snapshot s of `window` reports the R totals of the window's closed trades.
TotalsOf(s, window) ==
    /\ s.total_r = ClosedProfit(window, Len(window))
    /\ s.avg_r.den = s.closed_trades
    /\ s.avg_r.num = s.total_r
    /\ s.avg_r.den = NumClosed(window)

\* C12: in every snapshot of a window with at least one closed trade, total_r
\* is the sum of profit_r over the closed trades of the window only (active
\* trades add nothing, whatever their profit_r) and avg_r = total_r / closed_trades.
C12_TotalR ==
    /\ (NumClosed(daily_trades) > 0) => TotalsOf(get_daily_stats(Tracker), daily_trades)
    /\ (NumClosed(weekly_trades) > 0) => TotalsOf(get_weekly_stats(Tracker), weekly_trades)

\* C12 witness: both windows hold a trade closed by TP3 and a trade still
\* active with the profit_r of TP2, and total_r is 4.0.
C12_Witness ==
    /\ \E r, q \in Refs(daily_trades) :
           /\ heap[r].closed /\ heap[r].profit_r = 40
           /\ ~heap[q].closed /\ heap[q].profit_r = 25
    /\ Len(daily_trades) = 2 /\ Len(weekly_trades) = 2
    /\ get_daily_stats(Tracker).total_r = 40
    /\ get_weekly_stats(Tracker).avg_r = [num |-> 40, den |-> 1]

\* C13: reset_daily empties the daily window only: the daily snapshot is then
\* the "no trades" result, and the weekly window (so the weekly snapshot, which
\* still counts every trade of the weekly window), the active set, the closed
\* list and every Trade are as before; reset_weekly likewise leaves the daily
\* window, the active set, the closed list and every Trade as they are.
C13_ResetOnlyOneWindow ==
    /\ LET T2 == reset_daily(Tracker)
       IN  /\ T2.daily_trades = <<>>
           /\ get_daily_stats(T2) = None
           /\ T2.weekly_trades = weekly_trades
           /\ T2.active_trades = active_trades
           /\ T2.closed_trades = closed_trades
           /\ T2.heap = heap
           /\ get_weekly_stats(T2) = get_weekly_stats(Tracker)
           /\ (weekly_trades # <<>>)
                  => get_weekly_stats(T2).total_signals = Len(weekly_trades)
    /\ LET T2 == reset_weekly(Tracker)
       IN  /\ T2.weekly_trades = <<>>
           /\ get_weekly_stats(T2) = None
           /\ T2.daily_trades = daily_trades
           /\ T2.active_trades = active_trades
           /\ T2.closed_trades = closed_trades
           /\ T2.heap = heap
           /\ get_daily_stats(T2) = get_daily_stats(Tracker)

\* C13 witness: the daily window is empty after a reset while the weekly
\* window still holds both trades created before it, one active, one closed.
C13_Witness ==
    /\ daily_trades = <<>>
    /\ weekly_trades = <<1, 2>>
    /\ get_weekly_stats(Tracker).total_signals = 2
    /\ DOMAIN active_trades # {}
    /\ closed_trades # <<>>

\* The positions of `window` holding a closed trade of symbol sym.
ClosedAt(window, sym) ==
    {i \in DOMAIN window : heap[window[i]].closed /\ heap[window[i]].symbol = sym}

RECURSIVE ProfitAt(_, _)
\* The profit_r of the trades at the positions `at` of a window, summed.
ProfitAt(window, at) ==
    IF at = {} THEN 0
    ELSE LET i == CHOOSE j \in at : TRUE
         IN  heap[window[i]].profit_r + ProfitAt(window, at \ {i})

RECURSIVE SumField(_, _, _)
\* by_symbol[sym][field] summed over the symbols syms.
SumField(by_symbol, syms, field) ==
    IF syms = {} THEN 0
    ELSE LET sym == CHOOSE x \in syms : TRUE
         IN  by_symbol[sym][field] + SumField(by_symbol, syms \ {sym}, field)

\* C14: in every weekly snapshot with a closed trade, by_symbol has an entry
\* for exactly the symbols of the window's closed trades; per symbol, wins is
\* the number of its closed trades with final_result TP1, TP2 or TP3, losses
\* the number of its other closed trades, total_r the sum of their profit_r;
\* summed over the symbols they equal the snapshot's wins, losses (sl_count)
\* and total_r.
C14_BySymbol ==
    (NumClosed(weekly_trades) > 0) =>
        LET s == get_weekly_stats(Tracker)
            b == s.by_symbol
            w == weekly_trades
        IN  /\ DOMAIN b = {heap[w[i]].symbol : i \in {j \in DOMAIN w : heap[w[j]].closed}}
            /\ \A sym \in DOMAIN b :
                   /\ b[sym].wins = Cardinality({i \in ClosedAt(w, sym) :
                                       heap[w[i]].final_result \in {"TP1", "TP2", "TP3"}})
                   /\ b[sym].losses = Cardinality({i \in ClosedAt(w, sym) :
                                       heap[w[i]].final_result \notin {"TP1", "TP2", "TP3"}})
                   /\ b[sym].total_r = ProfitAt(w, ClosedAt(w, sym))
            /\ SumField(b, DOMAIN b, "wins") = s.wins
            /\ SumField(b, DOMAIN b, "losses") = s.losses
            /\ s.losses = s.sl_count
            /\ SumField(b, DOMAIN b, "total_r") = s.total_r

\* C14 witness: the weekly window holds two closed trades of one symbol, a
\* win and a loss, accumulated in one by_symbol entry.
C14_Witness ==
    /\ NumClosed(weekly_trades) = 2
    /\ "EURUSD" \in DOMAIN get_weekly_stats(Tracker).by_symbol
    /\ get_weekly_stats(Tracker).by_symbol["EURUSD"]
           = [wins |-> 1, losses |-> 1, total_r |-> 30]

\* C15 (as claimed): while webhook events and snapshot reads run on
\* different threads, in no state that a reader is about to read (its next
\* statement evaluates t.closed over a window) is a trade stored in the
\* active set with closed = true or a final_result of TP3 or SL, or stored in
\* the active set and in the closed list at once.
C15_CloseAtomic ==
    (reader.pc = "r_closed") =>
        \A id \in DOMAIN active_trades :
            LET r == active_trades[id]
            IN  /\ ~heap[r].closed
                /\ heap[r].final_result \notin {"TP3", "SL"}
                /\ r \notin Refs(closed_trades)

\* C16 (as claimed): a snapshot returned while events and resets run on other
\* threads never reports more closed trades than signals, nor a negative
\* number of active trades.
C16_SnapshotConsistent ==
    (reader.pc = "r_return" /\ reader.stats # None) =>
        /\ 0 <= reader.stats.closed_trades
        /\ reader.stats.closed_trades <= reader.stats.total_signals
        /\ reader.stats.active_trades >= 0

\* C17 (as claimed): between the snapshot of a summary job and its reset no
\* trade is appended to the window, so the window the reset is about to clear
\* holds exactly the trades the snapshot covered.
C17_SnapshotThenReset ==
    (sched.pc = "s_reset") => WindowList(sched.window) = sched.seen

\* An event payload that lacks a required field: one of the three tracker
\* events without an id, or a TP_HIT without a level.
MissingRequired(data) ==
    /\ Get(data, "event", "UNKNOWN") \in {"NEW_TRADE", "TP_HIT", "SL_HIT"}
    /\ \/ "id" \notin DOMAIN data
       \/ Get(data, "event", "UNKNOWN") = "TP_HIT" /\ "level" \notin DOMAIN data

\* C18 (as claimed): processing an event that lacks a required field (no id,
\* or a TP_HIT without a level) leaves the active set, the closed set, both
\* windows and every Trade object as they were: the tracker is not called.
C18_MissingFieldsRejected ==
    [][\A data \in Payloads :
          MissingRequired(data) /\ ProcessWebhook(data) =>
              UNCHANGED <<heap, active_trades, closed_trades, daily_trades, weekly_trades>>]_vars

\* C19 (as claimed): every Trade the tracker holds has its stop-loss on the
\* losing side of its entry: above it for SHORT/SELL, below it for LONG/BUY.
C19_StopOnLosingSide ==
    \A r \in DOMAIN heap :
        /\ heap[r].direction \in {"SHORT", "SELL"} => heap[r].stop_loss > heap[r].entry
        /\ heap[r].direction \in {"LONG", "BUY"} => heap[r].stop_loss < heap[r].entry

\* C20 (as claimed): after send_daily_summary (send_weekly_summary) has run
\* the daily (weekly) window is empty, whether or not a notifier was set up
\* at start-up and whether or not the summary was delivered.
C20_BoundaryAlwaysResets ==
    [][\A delivered \in BOOLEAN :
          /\ SendDailySummary(delivered) => daily_trades' = <<>>
          /\ SendWeeklySummary(delivered) => weekly_trades' = <<>>]_vars

\* The Trade object r is the only one constructed with its id.
SoleObject(r) == \A q \in DOMAIN heap : heap[q].id = heap[r].id => q = r

\* C21 (as claimed): with TP3 and SL events for one id processed at the same
\* time (and TP1/TP2 events for it in flight), no call fails, the trade is in
\* the closed set at most once, and once there it carries one of the two
\* terminal pairs, (TP3, 4.0) or (SL, -1.0). Stated for ids created once.
C21_TerminalPairConsistent ==
    /\ raised # "KeyError"
    /\ \A i, j \in DOMAIN closed_trades : closed_trades[i] = closed_trades[j] => i = j
    /\ \A i \in DOMAIN closed_trades :
          LET t == heap[closed_trades[i]]
          IN  SoleObject(closed_trades[i]) =>
                  \/ t.final_result = "TP3" /\ t.profit_r = R_TP3
                  \/ t.final_result = "SL" /\ t.profit_r = R_SL

\* C22 (as claimed): with the tracker's calls applied one at a time, every
\* Trade object in the daily or the weekly window is the object stored under
\* its id in the active set, or is a member of the closed set.
C22_WindowTradesTracked ==
    \A r \in Refs(daily_trades) \cup Refs(weekly_trades) :
        \/ heap[r].id \in DOMAIN active_trades /\ active_trades[heap[r].id] = r
        \/ r \in Refs(closed_trades)

\* C23 (as claimed): for every trade in the active set profit_r is that of the
\* highest take-profit level recorded: 2.5 if tp2_hit is set, otherwise 1.5 if
\* tp1_hit is set, otherwise 0.0, whatever the order of the TP1 and TP2 events.
C23_ProfitOfHighestTp ==
    \A id \in DOMAIN active_trades :
        LET t == heap[active_trades[id]]
        IN  t.profit_r = IF t.tp2_hit THEN R_TP2 ELSE IF t.tp1_hit THEN R_TP1 ELSE R_INITIAL

\* Snapshot s counts no TP1 or TP2 final: its wins are its TP3 closes and its
\* closed trades are TP3 closes and SL closes.
NoPartialFinals(s) ==
    /\ s.tp1_count = 0
    /\ s.tp2_count = 0
    /\ s.wins = s.tp3_count
    /\ s.closed_trades = s.tp3_count + s.sl_count

\* C24: no Trade object ever has final_result "TP1" or "TP2" (it is "ACTIVE",
\* "TP3" or "SL"), so every snapshot that reports outcome counts (that of a
\* window with a closed trade) has tp1_count = 0 and tp2_count = 0, wins equal
\* to tp3_count, and closed_trades = tp3_count + sl_count.
C24_NoTp1Tp2Final ==
    /\ \A r \in DOMAIN heap : heap[r].final_result \in {"ACTIVE", "TP3", "SL"}
    /\ (NumClosed(daily_trades) > 0) => NoPartialFinals(get_daily_stats(Tracker))
    /\ (NumClosed(weekly_trades) > 0) => NoPartialFinals(get_weekly_stats(Tracker))

\* C24 witness: the daily window holds a trade closed by TP3 after TP1 and TP2
\* and a trade closed by SL after TP2, and its snapshot reports one win of two.
C24_Witness ==
    /\ \E r, q \in Refs(daily_trades) :
           /\ heap[r].tp1_hit /\ heap[r].tp2_hit /\ heap[r].final_result = "TP3"
           /\ heap[q].tp2_hit /\ heap[q].sl_hit /\ heap[q].final_result = "SL"
    /\ get_daily_stats(Tracker).wins = 1
    /\ get_daily_stats(Tracker).closed_trades = 2

====
